---- MODULE Spec2Model ----
(***************************************************************************)
(* A model of the trashmap crate (src/src/lib.rs) and of its recursion     *)
(* example (src/examples/recursion.rs).                                    *)
(*                                                                         *)
(* Spec        the TrashMap / TrashSet API driven by an arbitrary caller   *)
(* SpecWalk    State::step_into of the example, one step per call or return*)
(* SpecHasher  one KnownHasher driven through the Hasher trait             *)
(***************************************************************************)
EXTENDS Integers, Sequences, FiniteSets, TLC

VARIABLES
    trashmap,          \* TrashMap { hasher, map }, None if none was built  lib.rs:95-99
    trashset,          \* TrashSet { hasher, set }, None if none was built  lib.rs:268-272
    debug_assertions,  \* whether debug_assert! is compiled in (lib.rs:51)
    call,              \* the last API call: its arguments and what it returned
    state,             \* State { seen, mapping }, None outside the example  recursion.rs:6-9
    stack,             \* the active step_into frames, outermost first
    todo,              \* the top-level step_into calls the test has yet to make
    status,            \* idle (no walk), ready, running, returned, panicked
    panicEntry,        \* the entry whose step_into panicked, if any
    knownhasher,       \* KnownHasher { hash }, None if none is driven    lib.rs:39-41
    hcalls,            \* the Hasher calls made on it, in order: [op, arg]
    hdigest,           \* what the last finish returned, None if none returned
    hpanicked          \* whether a call on it panicked

vars ==
    <<trashmap, trashset, debug_assertions, call, state, stack, todo, status, panicEntry,
      knownhasher, hcalls, hdigest, hpanicked>>

walkVars == <<state, stack, todo, status, panicEntry>>
hasherVars == <<knownhasher, hcalls, hdigest, hpanicked>>

(***************************************************************************)
(* Bounds.                                                                 *)
(***************************************************************************)
\* The identifiers are u64 in the code; the model keeps NumIds of them.
NumIds == 8
\* The hashing strategies (instances of S) the model distinguishes: 0..MaxSeed.
MaxSeed == 2
\* The values a caller stores: 1..MaxVal.
MaxVal == 2
\* The Hasher calls made on one KnownHasher.
MaxCalls == 3

Ids == 0 .. (NumIds - 1)
Seeds == 0 .. MaxSeed
Values == 1 .. MaxVal

(***************************************************************************)
(* Option<T>: None is the empty tuple, Some(x) the one-element tuple.      *)
(***************************************************************************)
None == <<>>
Some(x) == <<x>>

(***************************************************************************)
(* Keys.  The node names of the example; the API is driven with the first  *)
(* three of them.                                                          *)
(***************************************************************************)
Keys == {"foo", "bar", "baz", "quux", "one", "two"}
OpKeys == {"foo", "bar", "baz"}

KeyIdx(k) ==
    CASE k = "foo" -> 0
      [] k = "bar" -> 1
      [] k = "baz" -> 2
      [] k = "quux" -> 3
      [] k = "one" -> 4
      [] k = "two" -> 5

(***************************************************************************)
(* The hashing strategy S (a BuildHasher): build_hasher, k.hash, finish.   *)
(* An instance is a seed.  Even seeds are injective on Keys, odd seeds     *)
(* send neighbouring keys to one digest (a caller-supplied S may collide). *)
(***************************************************************************)
Digest(seed, k) ==
    IF seed % 2 = 0
    THEN (KeyIdx(k) + seed) % NumIds
    ELSE ((KeyIdx(k) \div 2) + seed) % NumIds

\* The documented assumption of the crate: no two keys in use collide.
CollisionFree(seed, ks) ==
    \A k1 \in ks, k2 \in ks : k1 # k2 => Digest(seed, k1) # Digest(seed, k2)

(***************************************************************************)
(* Trash(u64) and get_hash.                                                *)
(***************************************************************************)
Trash(x) == [hash |-> x]
get_hash(t) == t.hash

(***************************************************************************)
(* KnownHasher.  A call returns the hasher after it and whether it         *)
(* panicked.                                                               *)
(***************************************************************************)
KnownHasher_default == [hash |-> None]

KnownHasher_write(self, bytes) ==
    [self |-> self, panicked |-> TRUE]

\* A write_u64 that mixes the value before it stores it.
KnownHasher_write_u64_mixed(self, i, dbg) ==
    IF dbg /\ self.hash # None
    THEN [self |-> self, panicked |-> TRUE]
    ELSE [self |-> [hash |-> Some((3 * i + 1) % NumIds)], panicked |-> FALSE]

KnownHasher_write_u64(self, i, dbg) ==
    IF dbg /\ self.hash # None
    THEN [self |-> self, panicked |-> TRUE]
    ELSE [self |-> [hash |-> Some(i)], panicked |-> FALSE]

\* A finish that reports a default when nothing was written.
KnownHasher_finish_or_default(self) ==
    IF self.hash = None
    THEN [value |-> 0, panicked |-> FALSE]
    ELSE [value |-> self.hash[1], panicked |-> FALSE]

KnownHasher_finish(self) ==
    IF self.hash = None
    THEN [value |-> 0, panicked |-> TRUE]
    ELSE [value |-> self.hash[1], panicked |-> FALSE]

\* #[derive(Hash)] on Trash(u64): one write_u64 of the wrapped value.
Trash_hash(t, hstate, dbg) == KnownHasher_write_u64(hstate, get_hash(t), dbg)

\* The inner container hashing one Trash with BuildHasherDefault<KnownHasher>.
BuildHash(t, dbg) ==
    LET w == Trash_hash(t, KnownHasher_default, dbg)
        f == KnownHasher_finish(w.self)
    IN  [hash |-> f.value, panicked |-> w.panicked \/ f.panicked]

(***************************************************************************)
(* The inner HashMap<Trash, V, _> and HashSet<Trash, _>: a function on the *)
(* stored identifiers, a set of identifiers.  Every operation hashes its   *)
(* Trash through BuildHash first.                                          *)
(***************************************************************************)
HashMap_insert(m, t, v, dbg) ==
    IF BuildHash(t, dbg).panicked
    THEN [map |-> m, old |-> None, panicked |-> TRUE]
    ELSE [map |-> [x \in DOMAIN m \cup {t} |-> IF x = t THEN v ELSE m[x]],
          old |-> IF t \in DOMAIN m THEN Some(m[t]) ELSE None,
          panicked |-> FALSE]

HashMap_get(m, t, dbg) ==
    IF BuildHash(t, dbg).panicked
    THEN [value |-> None, panicked |-> TRUE]
    ELSE [value |-> IF t \in DOMAIN m THEN Some(m[t]) ELSE None,
          panicked |-> FALSE]

HashMap_remove(m, t, dbg) ==
    IF BuildHash(t, dbg).panicked
    THEN [map |-> m, old |-> None, panicked |-> TRUE]
    ELSE [map |-> [x \in DOMAIN m \ {t} |-> m[x]],
          old |-> IF t \in DOMAIN m THEN Some(m[t]) ELSE None,
          panicked |-> FALSE]

HashSet_insert(s, t, dbg) ==
    IF BuildHash(t, dbg).panicked
    THEN [set |-> s, flag |-> FALSE, panicked |-> TRUE]
    ELSE [set |-> s \cup {t}, flag |-> t \notin s, panicked |-> FALSE]

HashSet_contains(s, t, dbg) ==
    IF BuildHash(t, dbg).panicked
    THEN [flag |-> FALSE, panicked |-> TRUE]
    ELSE [flag |-> t \in s, panicked |-> FALSE]

HashSet_remove(s, t, dbg) ==
    IF BuildHash(t, dbg).panicked
    THEN [set |-> s, flag |-> FALSE, panicked |-> TRUE]
    ELSE [set |-> s \ {t}, flag |-> t \in s, panicked |-> FALSE]

(***************************************************************************)
(* impl TrashMap.  self is [hasher, map]; a call returns the container     *)
(* after it, the components of its result (trash, value, flag; None where  *)
(* the result has no such component), the number of times the key was      *)
(* hashed with S, and whether the call panicked.                           *)
(***************************************************************************)
TrashMap_new(hasher) == [hasher |-> hasher, map |-> <<>>]

\* A trash that keeps only part of the digest.
TrashMap_trash_truncated(self, k) ==
    [self |-> self, trash |-> Some(Trash(Digest(self.hasher, k) \div 2)), value |-> None,
     flag |-> None, hashes |-> 1, panicked |-> FALSE]

\* A trash whose digest depends on what the map holds.
TrashMap_trash_salted(self, k) ==
    [self |-> self,
     trash |-> Some(Trash((Digest(self.hasher, k) + Cardinality(DOMAIN self.map)) % NumIds)),
     value |-> None, flag |-> None, hashes |-> 1, panicked |-> FALSE]

TrashMap_trash(self, k) ==
    [self |-> self, trash |-> Some(Trash(Digest(self.hasher, k))), value |-> None,
     flag |-> None, hashes |-> 1, panicked |-> FALSE]

\* An insert that resolves a collision: an identifier in use sends the entry to the next one.
TrashMap_insert_probing(self, k, v, dbg) ==
    LET t == TrashMap_trash(self, k)
        id == IF t.trash[1] \in DOMAIN self.map
              THEN Trash((get_hash(t.trash[1]) + 1) % NumIds)
              ELSE t.trash[1]
        r == HashMap_insert(self.map, id, v, dbg)
    IN  [self |-> [self EXCEPT !.map = r.map], trash |-> Some(id), value |-> None,
         flag |-> None, hashes |-> t.hashes, panicked |-> r.panicked]

TrashMap_insert(self, k, v, dbg) ==
    LET t == TrashMap_trash(self, k)
        r == HashMap_insert(self.map, t.trash[1], v, dbg)
    IN  [self |-> [self EXCEPT !.map = r.map], trash |-> t.trash, value |-> None,
         flag |-> None, hashes |-> t.hashes, panicked |-> r.panicked]

\* An insert_id that keeps the value already held at the identifier.
TrashMap_insert_id_keep(self, k, v, dbg) ==
    LET g == HashMap_get(self.map, k, dbg)
        r == IF g.value = None
             THEN HashMap_insert(self.map, k, v, dbg)
             ELSE [map |-> self.map, old |-> g.value, panicked |-> g.panicked]
    IN  [self |-> [self EXCEPT !.map = r.map], trash |-> None, value |-> r.old,
         flag |-> None, hashes |-> 0, panicked |-> r.panicked]

TrashMap_insert_id(self, k, v, dbg) ==
    LET r == HashMap_insert(self.map, k, v, dbg)
    IN  [self |-> [self EXCEPT !.map = r.map], trash |-> None, value |-> r.old,
         flag |-> None, hashes |-> 0, panicked |-> r.panicked]

\* An insert_replace that returns the value it stored, not the one it replaced.
TrashMap_insert_replace_new(self, k, v, dbg) ==
    LET t == TrashMap_trash(self, k)
        r == HashMap_insert(self.map, t.trash[1], v, dbg)
    IN  [self |-> [self EXCEPT !.map = r.map], trash |-> t.trash, value |-> Some(v),
         flag |-> None, hashes |-> t.hashes, panicked |-> r.panicked]

TrashMap_insert_replace(self, k, v, dbg) ==
    LET t == TrashMap_trash(self, k)
        r == HashMap_insert(self.map, t.trash[1], v, dbg)
    IN  [self |-> [self EXCEPT !.map = r.map], trash |-> t.trash, value |-> r.old,
         flag |-> None, hashes |-> t.hashes, panicked |-> r.panicked]

TrashMap_get(self, key, dbg) ==
    LET r == HashMap_get(self.map, key, dbg)
    IN  [self |-> self, trash |-> None, value |-> r.value,
         flag |-> None, hashes |-> 0, panicked |-> r.panicked]

\* A get_key that takes the entry out of the map.
TrashMap_get_key_take(self, key, dbg) ==
    LET t == TrashMap_trash(self, key)
        r == HashMap_remove(self.map, t.trash[1], dbg)
    IN  [self |-> [self EXCEPT !.map = r.map], trash |-> None, value |-> r.old,
         flag |-> None, hashes |-> t.hashes, panicked |-> r.panicked]

TrashMap_get_key(self, key, dbg) ==
    LET t == TrashMap_trash(self, key)
        r == HashMap_get(self.map, t.trash[1], dbg)
    IN  [self |-> self, trash |-> None, value |-> r.value,
         flag |-> None, hashes |-> t.hashes, panicked |-> r.panicked]

\* A remove that reads the entry and leaves it in place.
TrashMap_remove_peek(self, key, dbg) ==
    LET r == HashMap_get(self.map, key, dbg)
    IN  [self |-> self, trash |-> None, value |-> r.value,
         flag |-> None, hashes |-> 0, panicked |-> r.panicked]

TrashMap_remove(self, key, dbg) ==
    LET r == HashMap_remove(self.map, key, dbg)
    IN  [self |-> [self EXCEPT !.map = r.map], trash |-> None, value |-> r.old,
         flag |-> None, hashes |-> 0, panicked |-> r.panicked]

TrashMap_remove_key(self, key, dbg) ==
    LET t == TrashMap_trash(self, key)
        r == HashMap_remove(self.map, t.trash[1], dbg)
    IN  [self |-> [self EXCEPT !.map = r.map], trash |-> None, value |-> r.old,
         flag |-> None, hashes |-> t.hashes, panicked |-> r.panicked]

(***************************************************************************)
(* impl TrashSet.  self is [hasher, set].                                  *)
(***************************************************************************)
TrashSet_new(hasher) == [hasher |-> hasher, set |-> {}]

\* A trash that finishes the hasher without feeding it the key.
TrashSet_trash_unfed(self, k) ==
    [self |-> self, trash |-> Some(Trash(self.hasher % NumIds)), value |-> None,
     flag |-> None, hashes |-> 1, panicked |-> FALSE]

TrashSet_trash(self, k) ==
    [self |-> self, trash |-> Some(Trash(Digest(self.hasher, k))), value |-> None,
     flag |-> None, hashes |-> 1, panicked |-> FALSE]

TrashSet_insert(self, key, dbg) ==
    LET t == TrashSet_trash(self, key)
        r == HashSet_insert(self.set, t.trash[1], dbg)
    IN  [self |-> [self EXCEPT !.set = r.set], trash |-> t.trash, value |-> None,
         flag |-> None, hashes |-> t.hashes, panicked |-> r.panicked]

\* An insert_check that reports whether the entry was present, not whether it was new.
TrashSet_insert_check_present(self, key, dbg) ==
    LET t == TrashSet_trash(self, key)
        r == HashSet_insert(self.set, t.trash[1], dbg)
    IN  [self |-> [self EXCEPT !.set = r.set], trash |-> t.trash, value |-> None,
         flag |-> Some(~r.flag), hashes |-> t.hashes, panicked |-> r.panicked]

TrashSet_insert_check(self, key, dbg) ==
    LET t == TrashSet_trash(self, key)
        r == HashSet_insert(self.set, t.trash[1], dbg)
    IN  [self |-> [self EXCEPT !.set = r.set], trash |-> t.trash, value |-> None,
         flag |-> Some(r.flag), hashes |-> t.hashes, panicked |-> r.panicked]

TrashSet_insert_id(self, key, dbg) ==
    LET r == HashSet_insert(self.set, key, dbg)
    IN  [self |-> [self EXCEPT !.set = r.set], trash |-> None, value |-> None,
         flag |-> Some(r.flag), hashes |-> 0, panicked |-> r.panicked]

\* A contains that takes an absent identifier for an error.
TrashSet_contains_strict(self, key, dbg) ==
    LET r == HashSet_contains(self.set, key, dbg)
    IN  [self |-> self, trash |-> None, value |-> None,
         flag |-> Some(r.flag), hashes |-> 0, panicked |-> r.panicked \/ ~r.flag]

TrashSet_contains(self, key, dbg) ==
    LET r == HashSet_contains(self.set, key, dbg)
    IN  [self |-> self, trash |-> None, value |-> None,
         flag |-> Some(r.flag), hashes |-> 0, panicked |-> r.panicked]

TrashSet_contains_key(self, key, dbg) ==
    LET t == TrashSet_trash(self, key)
        r == HashSet_contains(self.set, t.trash[1], dbg)
    IN  [self |-> self, trash |-> None, value |-> None,
         flag |-> Some(r.flag), hashes |-> t.hashes, panicked |-> r.panicked]

\* A remove that reports the entry and leaves it in place.
TrashSet_remove_kept(self, key, dbg) ==
    LET r == HashSet_contains(self.set, key, dbg)
    IN  [self |-> self, trash |-> None, value |-> None,
         flag |-> Some(r.flag), hashes |-> 0, panicked |-> r.panicked]

TrashSet_remove(self, key, dbg) ==
    LET r == HashSet_remove(self.set, key, dbg)
    IN  [self |-> [self EXCEPT !.set = r.set], trash |-> None, value |-> None,
         flag |-> Some(r.flag), hashes |-> 0, panicked |-> r.panicked]

\* A remove_key that looks the key up and then removes it, hashing it each time.
TrashSet_remove_key_rehash(self, key, dbg) ==
    LET c == TrashSet_contains_key(self, key, dbg)
        t == TrashSet_trash(self, key)
        r == HashSet_remove(self.set, t.trash[1], dbg)
    IN  [self |-> [self EXCEPT !.set = r.set], trash |-> None, value |-> None,
         flag |-> Some(r.flag), hashes |-> c.hashes + t.hashes,
         panicked |-> c.panicked \/ r.panicked]

TrashSet_remove_key(self, key, dbg) ==
    LET t == TrashSet_trash(self, key)
        r == HashSet_remove(self.set, t.trash[1], dbg)
    IN  [self |-> [self EXCEPT !.set = r.set], trash |-> None, value |-> None,
         flag |-> Some(r.flag), hashes |-> t.hashes, panicked |-> r.panicked]

(***************************************************************************)
(* The caller of the API.  Keys come from OpKeys; identifiers are those    *)
(* of OpKeys under the container's own strategy and one identifier that    *)
(* the caller made up.                                                     *)
(***************************************************************************)
ForeignId == Trash(NumIds - 1)
IdInputs(hasher) == {Trash(Digest(hasher, k)) : k \in OpKeys} \cup {ForeignId}

\* No KnownHasher is driven from outside the containers.
NoHasher ==
    /\ knownhasher = None
    /\ hcalls = <<>>
    /\ hdigest = None
    /\ hpanicked = FALSE

NoCall ==
    [op |-> "none", key |-> "", id |-> None, val |-> None,
     trash |-> None, value |-> None, flag |-> None, hashes |-> 0, panicked |-> FALSE]

Called(op, key, id, val, r) ==
    [op |-> op, key |-> key, id |-> id, val |-> val,
     trash |-> r.trash, value |-> r.value, flag |-> r.flag,
     hashes |-> r.hashes, panicked |-> r.panicked]

MapCall(op, key, id, val, r) ==
    /\ trashmap' = r.self
    /\ call' = Called(op, key, id, val, r)
    /\ UNCHANGED <<trashset, debug_assertions, walkVars, hasherVars>>

SetCall(op, key, id, r) ==
    /\ trashset' = r.self
    /\ call' = Called(op, key, id, None, r)
    /\ UNCHANGED <<trashmap, debug_assertions, walkVars, hasherVars>>

MapInsert ==
    /\ trashmap # None
    /\ \E k \in OpKeys, v \in Values :
            MapCall("map_insert", k, None, Some(v),
                    TrashMap_insert(trashmap, k, v, debug_assertions))

MapInsertId ==
    /\ trashmap # None
    /\ \E id \in IdInputs(trashmap.hasher), v \in Values :
            MapCall("map_insert_id", "", Some(id), Some(v),
                    TrashMap_insert_id(trashmap, id, v, debug_assertions))

MapInsertReplace ==
    /\ trashmap # None
    /\ \E k \in OpKeys, v \in Values :
            MapCall("map_insert_replace", k, None, Some(v),
                    TrashMap_insert_replace(trashmap, k, v, debug_assertions))

MapGet ==
    /\ trashmap # None
    /\ \E id \in IdInputs(trashmap.hasher) :
            MapCall("map_get", "", Some(id), None,
                    TrashMap_get(trashmap, id, debug_assertions))

MapGetKey ==
    /\ trashmap # None
    /\ \E k \in OpKeys :
            MapCall("map_get_key", k, None, None,
                    TrashMap_get_key(trashmap, k, debug_assertions))

MapRemove ==
    /\ trashmap # None
    /\ \E id \in IdInputs(trashmap.hasher) :
            MapCall("map_remove", "", Some(id), None,
                    TrashMap_remove(trashmap, id, debug_assertions))

MapRemoveKey ==
    /\ trashmap # None
    /\ \E k \in OpKeys :
            MapCall("map_remove_key", k, None, None,
                    TrashMap_remove_key(trashmap, k, debug_assertions))

MapTrash ==
    /\ trashmap # None
    /\ \E k \in OpKeys :
            MapCall("map_trash", k, None, None, TrashMap_trash(trashmap, k))

SetInsert ==
    /\ trashset # None
    /\ \E k \in OpKeys :
            SetCall("set_insert", k, None, TrashSet_insert(trashset, k, debug_assertions))

SetInsertCheck ==
    /\ trashset # None
    /\ \E k \in OpKeys :
            SetCall("set_insert_check", k, None,
                    TrashSet_insert_check(trashset, k, debug_assertions))

SetInsertId ==
    /\ trashset # None
    /\ \E id \in IdInputs(trashset.hasher) :
            SetCall("set_insert_id", "", Some(id),
                    TrashSet_insert_id(trashset, id, debug_assertions))

SetContains ==
    /\ trashset # None
    /\ \E id \in IdInputs(trashset.hasher) :
            SetCall("set_contains", "", Some(id),
                    TrashSet_contains(trashset, id, debug_assertions))

SetContainsKey ==
    /\ trashset # None
    /\ \E k \in OpKeys :
            SetCall("set_contains_key", k, None,
                    TrashSet_contains_key(trashset, k, debug_assertions))

SetRemove ==
    /\ trashset # None
    /\ \E id \in IdInputs(trashset.hasher) :
            SetCall("set_remove", "", Some(id),
                    TrashSet_remove(trashset, id, debug_assertions))

SetRemoveKey ==
    /\ trashset # None
    /\ \E k \in OpKeys :
            SetCall("set_remove_key", k, None,
                    TrashSet_remove_key(trashset, k, debug_assertions))

SetTrash ==
    /\ trashset # None
    /\ \E k \in OpKeys :
            SetCall("set_trash", k, None, TrashSet_trash(trashset, k))

(***************************************************************************)
(* Init: the caller has built one container, a TrashMap or a TrashSet,     *)
(* with some strategy (new or with_capacity_and_hasher).  Two containers   *)
(* share nothing, so a run drives one of them.                             *)
(***************************************************************************)
Init ==
    /\ \/ /\ \E h \in Seeds : trashmap = TrashMap_new(h)
          /\ trashset = None
       \/ /\ trashmap = None
          /\ \E h \in Seeds : trashset = TrashSet_new(h)
    /\ debug_assertions \in BOOLEAN
    /\ call = NoCall
    /\ state = None
    /\ stack = <<>>
    /\ todo = <<>>
    /\ status = "idle"
    /\ panicEntry = ""
    /\ NoHasher

Next ==
    \/ MapInsert
    \/ MapInsertId
    \/ MapInsertReplace
    \/ MapGet
    \/ MapGetKey
    \/ MapRemove
    \/ MapRemoveKey
    \/ MapTrash
    \/ SetInsert
    \/ SetInsertCheck
    \/ SetInsertId
    \/ SetContains
    \/ SetContainsKey
    \/ SetRemove
    \/ SetRemoveKey
    \/ SetTrash

Spec == Init /\ [][Next]_vars

(***************************************************************************)
(* examples/recursion.rs.  The mappings of test_works and test_panics,     *)
(* and test_works' mapping with test_panics' edges of quux.                *)
(***************************************************************************)
MappingWorks ==
    [foo |-> <<"bar", "baz", "quux">>,
     bar |-> <<"baz", "quux">>,
     quux |-> <<"one", "two", "baz">>]

MappingPanics ==
    [foo |-> <<"bar", "baz">>,
     bar |-> <<"baz", "quux">>,
     quux |-> <<"one", "two", "foo", "baz">>]

MappingCyclic ==
    [foo |-> <<"bar", "baz", "quux">>,
     bar |-> <<"baz", "quux">>,
     quux |-> <<"one", "two", "foo", "baz">>]

\* A test: its mapping and the step_into calls it makes, each on a new State.
test_works == [mapping |-> MappingWorks, todo |-> <<"foo", "bar">>]
test_panics == [mapping |-> MappingPanics, todo |-> <<"foo">>]
test_cyclic == [mapping |-> MappingCyclic, todo |-> <<"foo">>]
Tests == {test_works, test_panics, test_cyclic}

\* RandomState, the strategy of the example's TrashSet<str>: a fresh seed per
\* instance, taken (as the crate assumes) not to collide on the node names.
RandomState == {h \in Seeds : CollisionFree(h, Keys)}

State_new(mapping, hasher) == [seen |-> TrashSet_new(hasher), mapping |-> mapping]

\* self.mapping.get(entry).cloned().unwrap_or(vec![])
Children(self, entry) ==
    IF entry \in DOMAIN self.mapping THEN self.mapping[entry] ELSE <<>>

Top == stack[Len(stack)]

\* The entry of the step_into call that is made next, when there is one.
CallPending ==
    \/ status = "ready" /\ todo # <<>>
    \/ status = "running" /\ Top.children # <<>>

Callee == IF status = "ready" THEN Head(todo) ELSE Head(Top.children)

\* The caller's side of a call: the test's list, or the for loop, moves on.
Advanced ==
    IF status = "ready"
    THEN <<>>
    ELSE [stack EXCEPT ![Len(stack)].children = Tail(@)]

\* step_into up to its loop: insert_check, and a frame for the children.
StepIntoEnter ==
    /\ CallPending
    /\ LET r == TrashSet_insert_check(state.seen, Callee, debug_assertions)
       IN  /\ ~r.panicked
           /\ r.flag = Some(TRUE)
           /\ state' = [state EXCEPT !.seen = r.self]
           /\ stack' = Append(Advanced,
                              [entry |-> Callee, id |-> r.trash[1],
                               children |-> Children(state, Callee)])
    /\ todo' = IF status = "ready" THEN Tail(todo) ELSE todo
    /\ status' = "running"
    /\ UNCHANGED <<trashmap, trashset, debug_assertions, call, panicEntry, hasherVars>>

\* step_into finding the entry not newly inserted: panic!("found recursive loop!").
StepIntoPanic ==
    /\ CallPending
    /\ LET r == TrashSet_insert_check(state.seen, Callee, debug_assertions)
       IN  /\ r.panicked \/ r.flag # Some(TRUE)
           /\ state' = [state EXCEPT !.seen = r.self]
    /\ panicEntry' = Callee
    /\ status' = "panicked"
    /\ UNCHANGED <<trashmap, trashset, debug_assertions, call, stack, todo, hasherVars>>

\* step_into after its loop: self.seen.remove(id), and the return.
\* A step_into that returns without self.seen.remove(id).
StepIntoReturn_noremove ==
    /\ status = "running"
    /\ Top.children = <<>>
    /\ stack' = SubSeq(stack, 1, Len(stack) - 1)
    /\ status' = IF Len(stack) = 1 THEN "returned" ELSE "running"
    /\ UNCHANGED <<trashmap, trashset, debug_assertions, call, state, todo, panicEntry,
                   hasherVars>>

StepIntoReturn ==
    /\ status = "running"
    /\ Top.children = <<>>
    /\ LET r == TrashSet_remove(state.seen, Top.id, debug_assertions)
       IN  /\ ~r.panicked
           /\ state' = [state EXCEPT !.seen = r.self]
    /\ stack' = SubSeq(stack, 1, Len(stack) - 1)
    /\ status' = IF Len(stack) = 1 THEN "returned" ELSE "running"
    /\ UNCHANGED <<trashmap, trashset, debug_assertions, call, todo, panicEntry, hasherVars>>

\* test_works after its first walk: let mut state = State::new(mapping).
NewState ==
    /\ status = "returned"
    /\ todo # <<>>
    /\ \E h \in RandomState : state' = State_new(state.mapping, h)
    /\ status' = "ready"
    /\ UNCHANGED <<trashmap, trashset, debug_assertions, call, stack, todo, panicEntry,
                   hasherVars>>

InitWalk ==
    /\ trashmap = None
    /\ trashset = None
    /\ debug_assertions \in BOOLEAN
    /\ call = NoCall
    /\ \E t \in Tests, h \in RandomState :
          /\ state = State_new(t.mapping, h)
          /\ todo = t.todo
    /\ stack = <<>>
    /\ status = "ready"
    /\ panicEntry = ""
    /\ NoHasher

NextWalk ==
    \/ StepIntoEnter
    \/ StepIntoPanic
    \/ StepIntoReturn
    \/ NewState

\* The example is one thread running to its end: a step that can be taken is taken.
SpecWalk == InitWalk /\ [][NextWalk]_vars /\ WF_vars(NextWalk)

(***************************************************************************)
(* What the claims speak of.                                               *)
(***************************************************************************)
AllTrash == {Trash(i) : i \in Ids}

\* The entry a TrashMap holds at an identifier.
Entry(self, t) == IF t \in DOMAIN self.map THEN Some(self.map[t]) ELSE None

\* The identifier of a key under a strategy.
IdOf(hasher, k) == Trash(Digest(hasher, k))

\* Call c on a TrashMap with strategy h inserts at, or removes, identifier t.
Writes(c, h, t) ==
    \/ /\ c.op \in {"map_insert", "map_insert_replace", "map_remove_key"}
       /\ IdOf(h, c.key) = t
    \/ /\ c.op \in {"map_insert_id", "map_remove"}
       /\ c.id = Some(t)

IsMapStep == trashmap # None /\ call'.op # "none"
IsSetStep == trashset # None /\ call'.op # "none"

\* C1: after insert(k, v) returns id the map holds v at id, every call that
\* neither removes nor inserts at an identifier leaves its entry as it was,
\* get(id) returns the entry held at id, and after remove(id) none is held.
C1_RoundTrip ==
    [][IsMapStep =>
        /\ call'.op = "map_insert" =>
              /\ call'.trash # None
              /\ Entry(trashmap', call'.trash[1]) = call'.val
        /\ \A t \in AllTrash :
              ~Writes(call', trashmap.hasher, t) =>
                  Entry(trashmap', t) = Entry(trashmap, t)
        /\ call'.op = "map_get" =>
              /\ call'.value = Entry(trashmap, call'.id[1])
              /\ trashmap' = trashmap
        /\ call'.op = "map_remove" => Entry(trashmap', call'.id[1]) = None
    ]_vars

\* get(id) returned the inserted value while another entry was held too.
C1_Witness ==
    /\ trashmap # None
    /\ call.op = "map_get"
    /\ call.value # None
    /\ Cardinality(DOMAIN trashmap.map) >= 2

\* C2: insert and insert_replace of a key return the one identifier of that
\* key, leave one entry there, holding the new value, and no other new entry;
\* insert_replace returns the value held before, None if there was none.
C2_DuplicateInsert ==
    [][IsMapStep /\ call'.op \in {"map_insert", "map_insert_replace"} =>
        LET id == IdOf(trashmap.hasher, call'.key)
        IN  /\ trashmap'.hasher = trashmap.hasher
            /\ call'.trash = Some(id)
            /\ Entry(trashmap', id) = call'.val
            /\ DOMAIN trashmap'.map = DOMAIN trashmap.map \cup {id}
            /\ call'.op = "map_insert_replace" => call'.value = Entry(trashmap, id)
    ]_vars

\* insert_replace returned a previous value other than the one it stored.
C2_Witness ==
    /\ trashmap # None
    /\ call.op = "map_insert_replace"
    /\ call.value # None
    /\ call.value # call.val
    /\ Entry(trashmap, call.trash[1]) = call.val

\* C3: insert_check(k) returns the identifier of k and whether it was absent,
\* leaves it present, and changes nothing when it was present; remove(id)
\* leaves id absent (so the next insert_check of the key returns true).
C3_InsertCheck ==
    [][IsSetStep =>
        /\ trashset'.hasher = trashset.hasher
        /\ call'.op = "set_insert_check" =>
              LET id == IdOf(trashset.hasher, call'.key)
              IN  /\ call'.trash = Some(id)
                  /\ call'.flag = Some(id \notin trashset.set)
                  /\ id \in trashset'.set
                  /\ id \in trashset.set => trashset' = trashset
        /\ call'.op = "set_remove" => call'.id[1] \notin trashset'.set
    ]_vars

\* A second insert_check of a key still present returned false.
C3_Witness ==
    /\ trashset # None
    /\ call.op = "set_insert_check"
    /\ call.flag = Some(FALSE)
    /\ call.trash[1] \in trashset.set

(***************************************************************************)
(* The walk of the example.                                                *)
(***************************************************************************)
\* The entries of the active step_into calls, outermost first.
Path == [i \in 1 .. Len(stack) |-> stack[i].entry]

OnPath(entry) ==
    \E i \in 1 .. Len(stack) : stack[i].entry = entry /\ stack[i].id \in state.seen.set

HasCycle == state.mapping \in {MappingCyclic, MappingPanics}

\* C4: on the graphs with the edge quux -> foo the walk from foo panics, and
\* it panics nowhere but in the step_into("foo") made from quux, on the path
\* foo, bar, quux, with foo still in the set.
C4_CycleDetected ==
    HasCycle =>
        /\ <>(status = "panicked")
        /\ [](status = "panicked" =>
                /\ panicEntry = "foo"
                /\ OnPath("foo")
                /\ Path = <<"foo", "bar", "quux">>)

\* The walk over the graph foo->{bar,baz,quux}, ..., quux->{one,two,foo,baz} has panicked.
C4_Witness ==
    /\ status = "panicked"
    /\ state.mapping = MappingCyclic
    /\ panicEntry = "foo"

\* C5: on the graph of test_works the walk from foo, and then the walk from
\* bar on a new State, never panic and both return.
C5_NoFalseCycle ==
    state.mapping = MappingWorks =>
        /\ [](status # "panicked")
        /\ <>(status = "returned" /\ todo = <<>>)

\* baz is entered below quux, itself entered a second time as a child of foo.
C5_Witness ==
    /\ status = "running"
    /\ state.mapping = MappingWorks
    /\ Path = <<"foo", "quux", "baz">>

\* C6: while the walk has not panicked the set holds exactly the identifiers
\* of the active step_into calls, one for each, and it is empty once the
\* top-level call has returned.
C6_OnPathSet ==
    status \in {"ready", "running", "returned"} =>
        /\ state.seen.set = {stack[i].id : i \in 1 .. Len(stack)}
        /\ Cardinality(state.seen.set) = Len(stack)
        /\ \A i \in 1 .. Len(stack) :
              stack[i].id = IdOf(state.seen.hasher, stack[i].entry)
        /\ status = "returned" => state.seen.set = {}

\* baz, finished below bar, is entered again as a child of foo.
C6_Witness ==
    /\ status = "running"
    /\ state.mapping = MappingWorks
    /\ Path = <<"foo", "baz">>
    /\ Cardinality(state.seen.set) = 2

(***************************************************************************)
(* Keys against identifiers.                                               *)
(***************************************************************************)
KeyOps ==
    {"map_insert", "map_insert_replace", "map_get_key", "map_remove_key", "map_trash",
     "set_insert", "set_insert_check", "set_contains_key", "set_remove_key", "set_trash"}

IdOps ==
    {"map_insert_id", "map_get", "map_remove",
     "set_insert_id", "set_contains", "set_remove"}

\* C7: for keys k1, k2 whose digests differ, the identifier insert returns for
\* k1 is not the one trash gives k2, the insert leaves v1 at its identifier,
\* and inserting at, overwriting or removing k1's entry (by key or by
\* identifier) leaves k2's entry, and what get_key(k2) returns, as they were.
C7_DistinctKeys ==
    [][IsMapStep =>
        LET h == trashmap.hasher
            \* the keys whose entry the call is about: its key, or those of its identifier
            k1s == IF call'.op \in KeyOps
                   THEN {call'.key}
                   ELSE {k \in OpKeys : call'.id = TrashMap_trash(trashmap, k).trash}
        IN  \A k1 \in k1s, k2 \in OpKeys :
                Digest(h, k1) # Digest(h, k2) =>
                    LET id1 == TrashMap_trash(trashmap, k1).trash[1]
                        id2 == TrashMap_trash(trashmap, k2).trash[1]
                    IN  /\ id1 # id2
                        /\ Entry(trashmap', id2) = Entry(trashmap, id2)
                        /\ TrashMap_get_key(trashmap', k2, debug_assertions).value
                              = TrashMap_get_key(trashmap, k2, debug_assertions).value
                        /\ call'.op \in {"map_insert", "map_insert_replace"} =>
                              /\ call'.trash = Some(id1)
                              /\ Entry(trashmap', id1) = call'.val
    ]_vars

\* One key's entry was overwritten while another key's entry held another value.
C7_Witness ==
    /\ trashmap # None
    /\ call.op = "map_insert"
    /\ \E k2 \in OpKeys :
          /\ Digest(trashmap.hasher, k2) # Digest(trashmap.hasher, call.key)
          /\ Entry(trashmap, IdOf(trashmap.hasher, k2)) # None
          /\ Entry(trashmap, IdOf(trashmap.hasher, k2)) # call.val
          /\ Entry(trashmap, call.trash[1]) = call.val

\* The identifier a call looked up: the one it was given, or its key's.
Looked(c, h) == IF c.op \in IdOps THEN c.id[1] ELSE IdOf(h, c.key)

\* C8: a set starts empty and only insert, insert_check and insert_id add an
\* identifier, the one they were called with; contains and contains_key of an
\* identifier not held return false, remove and remove_key of it return false
\* (None for a map), get and get_key of it return None; none of these calls
\* panics, and none of them changes the container.
C8_AbsenceIsValue ==
    /\ trashset # None => trashset.set = {}
    /\ trashmap # None => DOMAIN trashmap.map = {}
    /\ [][/\ IsSetStep =>
                LET id == Looked(call', trashset.hasher)
                IN  /\ \A t \in trashset'.set \ trashset.set :
                          /\ call'.op \in {"set_insert", "set_insert_check", "set_insert_id"}
                          /\ t = id
                    /\ ( /\ call'.op \in {"set_contains", "set_contains_key",
                                          "set_remove", "set_remove_key"}
                         /\ id \notin trashset.set ) =>
                          /\ call'.flag = Some(FALSE)
                          /\ ~call'.panicked
                          /\ trashset' = trashset
          /\ IsMapStep =>
                LET id == Looked(call', trashmap.hasher)
                IN  ( /\ call'.op \in {"map_get", "map_get_key",
                                       "map_remove", "map_remove_key"}
                      /\ id \notin DOMAIN trashmap.map ) =>
                          /\ call'.value = None
                          /\ ~call'.panicked
                          /\ trashmap' = trashmap
       ]_vars

\* remove of an identifier not held, on a set that holds another, returned false.
C8_Witness ==
    /\ trashset # None
    /\ call.op = "set_remove"
    /\ call.flag = Some(FALSE)
    /\ ~call.panicked
    /\ trashset.set # {}

\* C9: contains_key(key), like insert_check(key), returns both the membership
\* boolean and the identifier of the key.
C9_ContainsKeyReturnsId ==
    (trashset # None /\ call.op \in {"set_contains_key", "set_insert_check"}) =>
        /\ call.flag # None
        /\ call.trash = Some(IdOf(trashset.hasher, call.key))

\* C10: a key-based call returns what, and leaves the container as, the
\* identifier-based call on trash(key) does, insert and insert_check return
\* trash(key) besides; a key-based call hashes its key once and an
\* identifier-based call hashes nothing.
C10_KeyOpsAreIdOps ==
    [][/\ call'.op \in KeyOps => call'.hashes = 1
       /\ call'.op \in IdOps => call'.hashes = 0
       /\ IsMapStep /\ call'.op \in KeyOps =>
            LET t == TrashMap_trash(trashmap, call'.key).trash
                dbg == debug_assertions
                ins == TrashMap_insert_id(trashmap, t[1], call'.val[1], dbg)
                get == TrashMap_get(trashmap, t[1], dbg)
                rem == TrashMap_remove(trashmap, t[1], dbg)
            IN  /\ call'.op = "map_insert" =>
                      call'.trash = t /\ trashmap' = ins.self
                /\ call'.op = "map_insert_replace" =>
                      call'.trash = t /\ call'.value = ins.value /\ trashmap' = ins.self
                /\ call'.op = "map_get_key" =>
                      call'.value = get.value /\ trashmap' = get.self
                /\ call'.op = "map_remove_key" =>
                      call'.value = rem.value /\ trashmap' = rem.self
                /\ call'.op = "map_trash" =>
                      call'.trash = t /\ trashmap' = trashmap
       /\ IsSetStep /\ call'.op \in KeyOps =>
            LET t == TrashSet_trash(trashset, call'.key).trash
                dbg == debug_assertions
                ins == TrashSet_insert_id(trashset, t[1], dbg)
                has == TrashSet_contains(trashset, t[1], dbg)
                rem == TrashSet_remove(trashset, t[1], dbg)
            IN  /\ call'.op = "set_insert" =>
                      call'.trash = t /\ trashset' = ins.self
                /\ call'.op = "set_insert_check" =>
                      call'.trash = t /\ call'.flag = ins.flag /\ trashset' = ins.self
                /\ call'.op = "set_contains_key" =>
                      call'.flag = has.flag /\ trashset' = has.self
                /\ call'.op = "set_remove_key" =>
                      call'.flag = rem.flag /\ trashset' = rem.self
                /\ call'.op = "set_trash" =>
                      call'.trash = t /\ trashset' = trashset
    ]_vars

\* remove_key removed an entry, having hashed its key once.
C10_Witness ==
    /\ trashset # None
    /\ call.op = "set_remove_key"
    /\ call.flag = Some(TRUE)
    /\ call.hashes = 1

(***************************************************************************)
(* Identifiers.                                                            *)
(***************************************************************************)
\* C11: no call changes the identifier trash gives a key, whatever it inserts
\* or removes, and the identifier insert, insert_replace, insert_check or
\* trash returned is the one trash gives the key in the state after the call.
C11_StableIds ==
    [][/\ IsMapStep =>
            /\ \A k \in OpKeys :
                  TrashMap_trash(trashmap', k).trash = TrashMap_trash(trashmap, k).trash
            /\ call'.op \in {"map_insert", "map_insert_replace", "map_trash"} =>
                  call'.trash = TrashMap_trash(trashmap', call'.key).trash
       /\ IsSetStep =>
            /\ \A k \in OpKeys :
                  TrashSet_trash(trashset', k).trash = TrashSet_trash(trashset, k).trash
            /\ call'.op \in {"set_insert", "set_insert_check", "set_trash"} =>
                  call'.trash = TrashSet_trash(trashset', call'.key).trash
    ]_vars

\* trash of a key returned the identifier of an entry inserted earlier, with another entry held.
C11_Witness ==
    /\ trashmap # None
    /\ call.op = "map_trash"
    /\ call.trash[1] \in DOMAIN trashmap.map
    /\ Cardinality(DOMAIN trashmap.map) >= 2

\* The identifiers some key has under a strategy.
Derived(hasher) == {IdOf(hasher, k) : k \in Keys}

\* C12: insert_id with any identifier, one no key has under the container's
\* strategy included, does not panic; on a map it returns the value held
\* before (None if none) and get(id) then returns the new value; on a set it
\* returns whether the identifier was absent and contains(id) is then true.
C12_InsertIdAnyId ==
    [][/\ (IsMapStep /\ call'.op = "map_insert_id") =>
            /\ ~call'.panicked
            /\ call'.value = Entry(trashmap, call'.id[1])
            /\ TrashMap_get(trashmap', call'.id[1], debug_assertions).value = call'.val
            /\ ~TrashMap_get(trashmap', call'.id[1], debug_assertions).panicked
       /\ (IsSetStep /\ call'.op = "set_insert_id") =>
            /\ ~call'.panicked
            /\ call'.flag = Some(call'.id[1] \notin trashset.set)
            /\ TrashSet_contains(trashset', call'.id[1], debug_assertions).flag = Some(TRUE)
    ]_vars

\* insert_id replaced a value at an identifier that no key has under the map's strategy.
C12_Witness ==
    /\ trashmap # None
    /\ call.op = "map_insert_id"
    /\ call.id[1] \notin Derived(trashmap.hasher)
    /\ call.value # None
    /\ call.value # call.val
    /\ Entry(trashmap, call.id[1]) = call.val

(***************************************************************************)
(* One KnownHasher driven through the Hasher trait: write, write_u64 and   *)
(* finish in any order, until a call panics.                               *)
(***************************************************************************)
\* The byte slices a write is given.
Bytes == {<<0>>, <<1, 2>>}

HasherLive ==
    /\ knownhasher # None
    /\ ~hpanicked
    /\ Len(hcalls) < MaxCalls

HasherWrite ==
    /\ HasherLive
    /\ \E b \in Bytes :
          LET r == KnownHasher_write(knownhasher, b)
          IN  /\ knownhasher' = r.self
              /\ hpanicked' = r.panicked
              /\ hcalls' = Append(hcalls, [op |-> "write", arg |-> b])
    /\ UNCHANGED <<trashmap, trashset, debug_assertions, call, walkVars, hdigest>>

HasherWriteU64 ==
    /\ HasherLive
    /\ \E i \in Ids :
          LET r == KnownHasher_write_u64(knownhasher, i, debug_assertions)
          IN  /\ knownhasher' = r.self
              /\ hpanicked' = r.panicked
              /\ hcalls' = Append(hcalls, [op |-> "write_u64", arg |-> <<i>>])
    /\ UNCHANGED <<trashmap, trashset, debug_assertions, call, walkVars, hdigest>>

HasherFinish ==
    /\ HasherLive
    /\ LET r == KnownHasher_finish(knownhasher)
       IN  /\ hpanicked' = r.panicked
           /\ hdigest' = IF r.panicked THEN None ELSE Some(r.value)
    /\ hcalls' = Append(hcalls, [op |-> "finish", arg |-> <<>>])
    /\ UNCHANGED <<trashmap, trashset, debug_assertions, call, walkVars, knownhasher>>

InitHasher ==
    /\ trashmap = None
    /\ trashset = None
    /\ debug_assertions \in BOOLEAN
    /\ call = NoCall
    /\ state = None
    /\ stack = <<>>
    /\ todo = <<>>
    /\ status = "idle"
    /\ panicEntry = ""
    /\ knownhasher = KnownHasher_default
    /\ hcalls = <<>>
    /\ hdigest = None
    /\ hpanicked = FALSE

NextHasher ==
    \/ HasherWrite
    \/ HasherWriteU64
    \/ HasherFinish

SpecHasher == InitHasher /\ [][NextHasher]_vars

\* The calls of one kind made so far, by position.
CallsOf(op) == {i \in 1 .. Len(hcalls) : hcalls[i].op = op}

\* A finish was called before any write_u64.
FinishedUnwritten ==
    \E i \in CallsOf("finish") : \A j \in CallsOf("write_u64") : j > i

\* The calls are not the one valid pattern: a raw write, a finish with
\* nothing written, or a second write_u64.
Misused ==
    \/ CallsOf("write") # {}
    \/ FinishedUnwritten
    \/ Cardinality(CallsOf("write_u64")) >= 2

\* C13 (as claimed): every misuse of the adapter ends in a panic.
C13_FailsLoudly == Misused => hpanicked

\* C13 (amended): a raw write and a finish with nothing written panic in
\* every build; a second write_u64 panics where debug assertions are compiled
\* in, and elsewhere replaces the value, which finish then reports.
C13_FailsLoudlyInDebug ==
    /\ CallsOf("write") # {} => hpanicked
    /\ FinishedUnwritten => hpanicked
    /\ (debug_assertions /\ Cardinality(CallsOf("write_u64")) >= 2) => hpanicked
    /\ (~debug_assertions /\ CallsOf("write") = {} /\ ~FinishedUnwritten) =>
          /\ ~hpanicked
          /\ (hcalls # <<>> /\ hcalls[Len(hcalls)].op = "finish") =>
                LET last == CHOOSE i \in CallsOf("write_u64") :
                                \A j \in CallsOf("write_u64") : j <= i
                IN  hdigest = hcalls[last].arg

\* With debug assertions, the second write_u64 panicked.
C13_Witness ==
    /\ debug_assertions
    /\ hpanicked
    /\ Len(hcalls) = 2
    /\ hcalls[1].op = "write_u64"
    /\ hcalls[2].op = "write_u64"

\* C14: a fresh KnownHasher given write_u64(x) and then finish returns x, and
\* so the inner container's hash of a Trash is the Trash's own value.
C14_PassThrough ==
    /\ ( /\ Len(hcalls) = 2
         /\ hcalls[1].op = "write_u64"
         /\ hcalls[2].op = "finish" ) =>
            /\ ~hpanicked
            /\ hdigest = hcalls[1].arg
    /\ \A x \in Ids :
          BuildHash(Trash(x), debug_assertions)
             = [hash |-> get_hash(Trash(x)), panicked |-> FALSE]

\* write_u64(x) and finish, with x the largest identifier, returned x.
C14_Witness ==
    /\ Len(hcalls) = 2
    /\ hcalls[1] = [op |-> "write_u64", arg |-> <<NumIds - 1>>]
    /\ hcalls[2].op = "finish"
    /\ hdigest = Some(NumIds - 1)

(***************************************************************************)
(* Collisions, and the calls that only read.                               *)
(***************************************************************************)
\* The keys other than k that have k's digest under a strategy.
Colliding(hasher, k) ==
    {k1 \in OpKeys : k1 # k /\ Digest(hasher, k1) = Digest(hasher, k)}

\* C15: when a key k1 other than the call's key k2 has k2's digest, the call
\* does not panic, insert and insert_replace of k2 return k1's identifier and leave
\* the new value as what get_key(k1) returns, remove_key(k2) returns and
\* removes k1's entry, and insert_check(k2) returns k1's identifier and
\* false when k1's entry is held.
C15_CollisionsAlias ==
    [][/\ (IsMapStep /\ call'.op \in KeyOps) =>
            \A k1 \in Colliding(trashmap.hasher, call'.key) :
                LET dbg == debug_assertions
                    id1 == TrashMap_trash(trashmap, k1).trash
                IN  /\ ~call'.panicked
                    /\ call'.op \in {"map_insert", "map_insert_replace"} =>
                          /\ call'.trash = id1
                          /\ TrashMap_get_key(trashmap', k1, dbg).value = call'.val
                          /\ DOMAIN trashmap'.map = DOMAIN trashmap.map \cup {id1[1]}
                    /\ call'.op = "map_remove_key" =>
                          /\ call'.value = TrashMap_get_key(trashmap, k1, dbg).value
                          /\ TrashMap_get_key(trashmap', k1, dbg).value = None
       /\ (IsSetStep /\ call'.op \in KeyOps) =>
            \A k1 \in Colliding(trashset.hasher, call'.key) :
                LET id1 == TrashSet_trash(trashset, k1).trash
                IN  /\ ~call'.panicked
                    /\ call'.op = "set_insert_check" =>
                          /\ call'.trash = id1
                          /\ call'.flag = Some(id1[1] \notin trashset.set)
                          /\ trashset'.set = trashset.set \cup {id1[1]}
    ]_vars

\* insert_check of a key returned false with one entry held, under a strategy
\* that gives another key the same digest.
C15_Witness ==
    /\ trashset # None
    /\ call.op = "set_insert_check"
    /\ Colliding(trashset.hasher, call.key) # {}
    /\ call.flag = Some(FALSE)
    /\ trashset.set = {call.trash[1]}

\* C16: get, get_key and trash leave the TrashMap as it was, and contains,
\* contains_key and trash leave the TrashSet as it was, whether or not the
\* identifier looked up is held.
C16_ReadOnly ==
    [][/\ (IsMapStep /\ call'.op \in {"map_get", "map_get_key", "map_trash"}) =>
            trashmap' = trashmap
       /\ (IsSetStep /\ call'.op \in {"set_contains", "set_contains_key", "set_trash"}) =>
            trashset' = trashset
    ]_vars

\* get_key returned a value, and the map still holds it.
C16_Witness ==
    /\ trashmap # None
    /\ call.op = "map_get_key"
    /\ call.value # None
    /\ Entry(trashmap, IdOf(trashmap.hasher, call.key)) = call.value

====
